---- MODULE Spec2Model ----
(***************************************************************************)
(* Model of xcode-update.py: a wrapper around `xcodes` that installs the   *)
(* latest Xcode, uninstalls the oldest one and re-points the two symlinks  *)
(* /Applications/Xcode-beta.app and /Applications/Xcode.app.               *)
(*                                                                         *)
(* The external world is the `xcodes` catalogue (versions 1..newest, the   *)
(* listing is oldest-first), the set of installed versions, and the two    *)
(* symlinks with their Finder aliases.  A run of main() is a sequence of   *)
(* steps driven by pc.                                                     *)
(***************************************************************************)
EXTENDS Integers, Sequences, FiniteSets, TLC

\* Number of Xcode versions the catalogue can grow to.
MaxVer == 3

VARIABLES
    newest,        \* `xcodes list` shows versions 1..newest, oldest first
    kind,          \* kind[v]: text xcodes adds to version v ("" for a release)
    installed,     \* set of installed versions
    beta,          \* target of /Applications/Xcode-beta.app, NoLink if absent
    release,       \* target of /Applications/Xcode.app, NoLink if absent
    betaAlias,     \* source of the Finder alias Xcode-beta.alias, NoLink if absent
    releaseAlias,  \* source of the Finder alias Xcode.alias, NoLink if absent
    pc,            \* position of the current run of main()
    args,          \* parsed command line of the current run
    typed,         \* the line input() returned last in ask_for_confirmation
    answer,        \* local `answer` of ask_for_confirmation
    ran,           \* functions main() has called in the current run, in order
    calls,         \* mutating collaborator calls committed by the current run
    dry_run,       \* the pass of main() being executed: preview or commit
    plan,          \* actions announced by the dry-run pass of the current run
    printed,       \* informational messages printed by the current run
    priorBeta,     \* local `current_beta` of the last committed update_links
    error,         \* exception that ended the run, "" if none
    status,        \* exit status of the run
    start,         \* installed set and pointers when the current run started
    prevFull       \* the previous run was a full run that completed, and
                   \* nothing changed outside since

vars == <<newest, kind, installed, beta, release, betaAlias, releaseAlias, pc,
          args, typed, answer, ran, calls, dry_run, plan, printed, priorBeta,
          error, status, start, prevFull>>

world == <<newest, kind, installed, beta, release, betaAlias, releaseAlias>>

-----------------------------------------------------------------------------
(* Module-level constants of the script.                                   *)

XCODE_SYMLINK_DIRECTORY == "/Applications"
XCODE_RELEASE == "Xcode.app"
XCODE_BETA == "Xcode-beta.app"
XCODES_INSTALLED_MAGIC_STRING == " (Installed)"
XCODES_BETA_MAGIC_STRINGS == {"Beta", "Release Candidate"}

Versions == 1..MaxVer
Kinds == {""} \cup XCODES_BETA_MAGIC_STRINGS

\* Python's None for a path, and for a missing symlink.
NoLink == "<None>"
\* Python's None and '' for a version identifier (both falsy).
NoneVersion == -1
EmptyVersion == 0

\* Path / name
JoinPath(dir, name) == dir \o "/" \o name

\* Where xcodes keeps version v.
PathOf(v) == JoinPath(XCODE_SYMLINK_DIRECTORY, "Xcode-" \o ToString(v) \o ".app")

\* Path.exists() of an application path: the bundle of an installed version.
Exists(path, inst) == \E v \in inst : PathOf(v) = path

\* Path.exists() of a symlink follows the link: it holds when the target exists.
LinkExists(link, inst) == link # NoLink /\ Exists(link, inst)

\* Path.is_symlink() of a symlink path: holds for a dangling link too.
IsSymlink(link) == link # NoLink

\* xcode_*_path.exists() or xcode_*_path.is_symlink()
LinkPresent(link, inst) == LinkExists(link, inst) \/ IsSymlink(link)

\* xcode_*_path.resolve(): the link's target, whether or not it exists.
Resolve(link) == link

-----------------------------------------------------------------------------
(* Output of the version manager.                                          *)

RECURSIVE SortedSeq(_)
SortedSeq(S) ==
    IF S = {} THEN <<>>
    ELSE LET m == CHOOSE x \in S : \A y \in S : x <= y
         IN  <<m>> \o SortedSeq(S \ {m})

\* The last element of str.split("\n") on output that ends in a newline.
EmptyLine == [id |-> EmptyVersion, mark |-> "", text |-> "", path |-> ""]

\* `xcodes list`.split("\n"): one line per catalogue version, oldest first,
\* with the installed mark inline.
ListLines(new, inst) ==
    [i \in 1..new |->
        [id |-> i,
         mark |-> IF i \in inst THEN XCODES_INSTALLED_MAGIC_STRING ELSE "",
         text |-> "", path |-> ""]] \o <<EmptyLine>>

\* `xcodes installed`.split("\n"): identifier (with its Beta / Release
\* Candidate text), a tab, and the path; oldest first.
InstalledLines(inst, k) ==
    LET s == SortedSeq(inst)
    IN  [i \in 1..Len(s) |->
            [id |-> s[i], mark |-> "", text |-> k[s[i]], path |-> PathOf(s[i])]]
        \o <<EmptyLine>>

\* any(magic_string in version for magic_string in XCODES_BETA_MAGIC_STRINGS)
IsBetaLine(line) == \E magic_string \in XCODES_BETA_MAGIC_STRINGS : line.text = magic_string

\* latest_xcode_version reporting every version as installed.
latest_xcode_version_AlwaysInstalled(new, inst) ==
    LET all_versions == ListLines(new, inst)
        latest_version == all_versions[Len(all_versions) - 1]
    IN  [version |-> latest_version.id, is_installed |-> TRUE]

\* latest_xcode_version(): second-to-last element of the split output, with
\* the installed mark stripped and reported as a flag.
latest_xcode_version(new, inst) ==
    LET all_versions == ListLines(new, inst)
        latest_version == all_versions[Len(all_versions) - 1]
    IN  [version |-> latest_version.id,
         is_installed |-> (latest_version.mark = XCODES_INSTALLED_MAGIC_STRING)]

\* `for version in ...split("\n"): if <test>: return ...`: the index of the
\* first line among those that pass the test, 0 when the loop runs out.
FirstLine(matching) ==
    IF matching = {} THEN 0
    ELSE CHOOSE i \in matching : \A j \in matching : i <= j

\* is_release_version testing for "Beta" only: a Release Candidate counts
\* as a release.
is_release_version_BetaOnly(path, inst, k) ==
    LET lines == InstalledLines(inst, k)
        i == FirstLine({n \in 1..Len(lines) : lines[n].path = path})
    IN  IF i = 0 THEN [raised |-> TRUE, value |-> FALSE]
        ELSE [raised |-> FALSE, value |-> lines[i].text # "Beta"]

\* is_release_version printing instead of raising when no line matches.
is_release_version_NoRaise(path, inst, k) ==
    LET lines == InstalledLines(inst, k)
        i == FirstLine({n \in 1..Len(lines) : lines[n].path = path})
    IN  IF i = 0 THEN [raised |-> FALSE, value |-> FALSE]
        ELSE [raised |-> FALSE, value |-> ~IsBetaLine(lines[i])]

\* is_release_version(path): raises when no installed line contains the path.
is_release_version(path, inst, k) ==
    LET lines == InstalledLines(inst, k)
        i == FirstLine({n \in 1..Len(lines) : lines[n].path = path})
    IN  IF i = 0 THEN [raised |-> TRUE, value |-> FALSE]
        ELSE [raised |-> FALSE, value |-> ~IsBetaLine(lines[i])]

\* oldest_xcode_version with the include_releases parameter ignored: the
\* first line of the listing whatever its kind.
oldest_xcode_version_AnyKind(include_releases, inst, k) ==
    LET lines == InstalledLines(inst, k)
    IN  lines[1].id

\* oldest_xcode_version keeping the last matching line instead of returning
\* at the first one.
oldest_xcode_version_Last(include_releases, inst, k) ==
    LET lines == InstalledLines(inst, k)
        matching == {n \in 1..Len(lines) :
                        include_releases \/ IsBetaLine(lines[n])}
    IN  IF matching = {} THEN NoneVersion
        ELSE lines[CHOOSE i \in matching : \A j \in matching : j <= i].id

\* oldest_xcode_version(include_releases): identifier of the first line that
\* is a beta, or of the very first line when releases are included.
oldest_xcode_version(include_releases, inst, k) ==
    LET lines == InstalledLines(inst, k)
        i == FirstLine({n \in 1..Len(lines) :
                            include_releases \/ IsBetaLine(lines[n])})
    IN  IF i = 0 THEN NoneVersion ELSE lines[i].id

\* path_for_xcode_version returning the first installed line instead of the
\* line of the searched version.
path_for_xcode_version_First(searched_version, inst, k) ==
    LET lines == InstalledLines(inst, k)
    IN  IF lines[1].path = "" THEN NoLink ELSE lines[1].path

\* path_for_xcode_version(searched_version)
path_for_xcode_version(searched_version, inst, k) ==
    LET lines == InstalledLines(inst, k)
        i == FirstLine({n \in 1..Len(lines) : lines[n].id = searched_version})
    IN  IF i = 0 THEN NoLink ELSE lines[i].path

\* Truth value of a version identifier in `if xcode_version_to_delete:`.
Truthy(version) == version # NoneVersion /\ version # EmptyVersion

-----------------------------------------------------------------------------
(* The planning functions.  Each returns what the function announces, what *)
(* it commits and how it ends, for the world it is called in.              *)

\* One announced or committed action.
Act(op, version, path) == [op |-> op, version |-> version, path |-> path]

\* make_alias that writes the Finder alias and leaves the symlink alone.
make_alias_AliasOnly(source, name, link, alias) ==
    IF source = NoLink
    THEN [raised |-> TRUE, link |-> link, alias |-> alias]
    ELSE [raised |-> FALSE, link |-> link, alias |-> source]

\* make_alias(source, name): writes the Finder alias next to the source, then
\* replaces the symlink in XCODE_SYMLINK_DIRECTORY; refuses a symlink onto
\* itself after the alias has been written.
make_alias(source, name, link, alias) ==
    LET symlink_destination == JoinPath(XCODE_SYMLINK_DIRECTORY, name)
    IN  IF source = NoLink
        THEN [raised |-> TRUE, link |-> link, alias |-> alias]
        ELSE IF source = symlink_destination
        THEN [raised |-> TRUE, link |-> link, alias |-> source]
        ELSE [raised |-> FALSE, link |-> source, alias |-> source]

\* delete_xcode without the `return` after the "no beta" message: the
\* missing link resolves to its own path, which no installed line contains.
delete_xcode_NoReturn(betaLink, inst, k) ==
    LET current_beta == Resolve(betaLink)
        should_delete_release_version == is_release_version(current_beta, inst, k)
        xcode_version_to_delete ==
            oldest_xcode_version(should_delete_release_version.value, inst, k)
    IN  IF should_delete_release_version.raised
        THEN [outcome |-> "raise", version |-> NoneVersion]
        ELSE IF Truthy(xcode_version_to_delete)
        THEN [outcome |-> "delete", version |-> xcode_version_to_delete]
        ELSE [outcome |-> "none", version |-> NoneVersion]

\* delete_xcode(): the decision taken before the uninstall call.
\*   "nobeta"  no Beta pointer, informational message, nothing deleted
\*   "raise"   is_release_version could not classify the Beta target
\*   "none"    no version qualifies
\*   "delete"  `version` is announced and, unless dry_run, uninstalled
delete_xcode(betaLink, inst, k) ==
    IF ~LinkExists(betaLink, inst) /\ ~IsSymlink(betaLink)
    THEN [outcome |-> "nobeta", version |-> NoneVersion]
    ELSE LET current_beta == Resolve(betaLink)
             should_delete_release_version == is_release_version(current_beta, inst, k)
             xcode_version_to_delete ==
                 oldest_xcode_version(should_delete_release_version.value, inst, k)
         IN  IF should_delete_release_version.raised
             THEN [outcome |-> "raise", version |-> NoneVersion]
             ELSE IF Truthy(xcode_version_to_delete)
             THEN [outcome |-> "delete", version |-> xcode_version_to_delete]
             ELSE [outcome |-> "none", version |-> NoneVersion]

\* update_links(dry_run) from line 112 on, once the listing call has
\* returned and `current_beta` has been resolved.  The result holds the
\* announcements (`said`), the committed relinks (`did`), the pointers and
\* aliases it leaves, `current_beta`, and the exception that ended it ("" if
\* none).
LinksFrom(dry, new, inst, k, betaLink, releaseLink, bAlias, rAlias, current_beta) ==
    LET latest == latest_xcode_version(new, inst)
        latest_version == latest.version
        saidBeta == <<Act("relinkBeta", latest_version, NoLink)>>
        unchanged == [beta |-> betaLink, release |-> releaseLink,
                      betaAlias |-> bAlias, releaseAlias |-> rAlias]
        latest_version_path == path_for_xcode_version(latest_version, inst, k)
        \* lines 115-119
        madeBeta == make_alias(latest_version_path, XCODE_BETA, betaLink, bAlias)
        afterBeta ==
            IF dry THEN unchanged
            ELSE [unchanged EXCEPT !.beta = madeBeta.link, !.betaAlias = madeBeta.alias]
        didBeta ==
            IF dry THEN <<>>
            ELSE <<Act("relinkBeta", latest_version, latest_version_path)>>
        \* lines 125-143: the Release pointer, decided on current_beta
        priorExists == current_beta # NoLink /\ Exists(current_beta, inst)
        classified == is_release_version(current_beta, inst, k)
        target ==
            IF LinkPresent(releaseLink, inst) \/ priorExists
            THEN current_beta ELSE latest_version_path
        targetVersion ==
            IF LinkPresent(releaseLink, inst) \/ priorExists
            THEN EmptyVersion ELSE latest_version
        relinks ==
            IF LinkPresent(releaseLink, inst)
            THEN priorExists /\ ~classified.raised /\ classified.value
            ELSE TRUE
        madeRelease == make_alias(target, XCODE_RELEASE, releaseLink, rAlias)
        saidRelease ==
            IF LinkPresent(releaseLink, inst) \/ priorExists
            THEN <<Act("relinkRelease", EmptyVersion, current_beta)>>
            ELSE <<Act("relinkRelease", latest_version, NoLink)>>
        didRelease == <<Act("relinkRelease", targetVersion, target)>>
        Result(err, w, said, did) ==
            [error |-> err, beta |-> w.beta, release |-> w.release,
             betaAlias |-> w.betaAlias, releaseAlias |-> w.releaseAlias,
             said |-> said, did |-> did, current_beta |-> current_beta]
    IN  IF ~dry /\ ~latest.is_installed
        THEN Result("TargetNotInstalled", unchanged, saidBeta, <<>>)
        ELSE IF ~dry /\ madeBeta.raised
        THEN Result("AliasFailed",
                    [unchanged EXCEPT !.betaAlias = madeBeta.alias], saidBeta, <<>>)
        ELSE IF LinkPresent(releaseLink, inst) /\ priorExists /\ classified.raised
        THEN Result("ClassificationLookupFailed", afterBeta, saidBeta, didBeta)
        ELSE IF ~relinks
        THEN Result("", afterBeta, saidBeta, didBeta)
        ELSE IF dry
        THEN Result("", afterBeta, saidBeta \o saidRelease, didBeta)
        ELSE IF madeRelease.raised
        THEN Result("AliasFailed",
                    [afterBeta EXCEPT !.releaseAlias = madeRelease.alias],
                    saidBeta \o saidRelease, didBeta)
        ELSE Result("",
                    [afterBeta EXCEPT !.release = madeRelease.link,
                                      !.releaseAlias = madeRelease.alias],
                    saidBeta \o saidRelease, didBeta \o didRelease)

\* update_links resolving `current_beta` only after make_alias has re-pointed
\* the Beta pointer at latest.
update_links_BetaResolvedLate(dry, new, inst, k, betaLink, releaseLink, bAlias, rAlias) ==
    LinksFrom(dry, new, inst, k, betaLink, releaseLink, bAlias, rAlias,
              IF dry \/ ~latest_xcode_version(new, inst).is_installed
              THEN IF LinkPresent(betaLink, inst) THEN Resolve(betaLink) ELSE NoLink
              ELSE path_for_xcode_version(latest_xcode_version(new, inst).version,
                                          inst, k))

\* update_links(dry_run): `current_beta` is resolved (lines 107-111) before
\* the Beta pointer is re-pointed.
update_links(dry, new, inst, k, betaLink, releaseLink, bAlias, rAlias) ==
    LinksFrom(dry, new, inst, k, betaLink, releaseLink, bAlias, rAlias,
              IF LinkPresent(betaLink, inst) THEN Resolve(betaLink) ELSE NoLink)

-----------------------------------------------------------------------------
(* main(): the order of the steps.                                         *)

\* main() calling install_latest_xcode whatever --links-only says.
FirstStep_IgnoresLinksOnly(a) == "install"

\* First step of a pass: `if not args.links_only: install_latest_xcode(...)`.
FirstStep(a) == IF ~a.links_only THEN "install" ELSE "links"

\* Step after install_latest_xcode returned:
\* `if args.delete and not args.links_only: delete_xcode(...)`.
AfterInstall(a) == IF a.delete /\ ~a.links_only THEN "delete" ELSE "links"

\* Step after update_links returned: the confirmation after the preview,
\* the end of main() after the commit.
AfterLinks(dry) == IF dry THEN "confirm" ELSE "done"

\* install_latest_xcode without the early exit().
InstallExits_Never(is_installed) == FALSE

\* install_latest_xcode: `if is_installed: print(...); exit()`.
InstallExits(is_installed) == is_installed

\* Characters a typed answer is made of.
Lower(c) == CASE c = "Y" -> "y" [] c = "N" -> "n" [] c = "M" -> "m" [] OTHER -> c

\* Lines the user may type at the prompt.
Answers == {<<>>, <<"y">>, <<"Y", "e", "s">>, <<"n">>, <<"N", "o">>,
            <<"x">>, <<"M", "a", "y", "b", "e">>}

\* ask_for_confirmation without the lower().
NormalizedAnswer_NoLower(line) == IF line # <<>> THEN line[1] ELSE ""

\* ask_for_confirmation: `if answer: answer = answer[0].lower()`.
NormalizedAnswer(line) == IF line # <<>> THEN Lower(line[1]) ELSE ""

\* The loop condition `answer not in ('y', 'n', '')` is false.
AnswerAccepted(a) == a \in {"y", "n", ""}

-----------------------------------------------------------------------------
(* The state machine.                                                      *)

\* input() has not been called yet.
NoInput == <<"<None>">>

\* One call main() makes.
Called(fn, dry) == [fn |-> fn, dry_run |-> dry]

NoArgs == [interactive |-> FALSE, delete |-> FALSE, links_only |-> FALSE]
NoStart == [installed |-> {}, beta |-> NoLink, release |-> NoLink,
            betaAlias |-> NoLink, releaseAlias |-> NoLink, afterFull |-> FALSE]

\* No run is in progress.
Idle == pc \in {"idle", "done", "exit", "failed"}

Init ==
    /\ newest \in Versions
    /\ kind \in [Versions -> Kinds]
    /\ \A v \in Versions : v > newest => kind[v] = ""
    /\ installed \in SUBSET (1..newest)
    /\ beta = NoLink /\ release = NoLink
    /\ betaAlias = NoLink /\ releaseAlias = NoLink
    /\ pc = "idle"
    /\ args = NoArgs
    /\ typed = NoInput /\ answer = "<None>"
    /\ ran = <<>>
    /\ calls = <<>> /\ plan = <<>> /\ printed = <<>>
    /\ dry_run = FALSE
    /\ priorBeta = NoLink
    /\ error = "" /\ status = 0
    /\ start = NoStart
    /\ prevFull = FALSE

\* Apple publishes a new version between two runs.
Publish ==
    /\ Idle
    /\ newest < MaxVer
    /\ newest' = newest + 1
    /\ \E kd \in Kinds : kind' = [kind EXCEPT ![newest + 1] = kd]
    /\ pc' = "idle"
    /\ args' = NoArgs /\ typed' = NoInput /\ answer' = "<None>"
    /\ ran' = <<>>
    /\ calls' = <<>> /\ plan' = <<>> /\ printed' = <<>>
    /\ dry_run' = FALSE /\ priorBeta' = NoLink
    /\ error' = "" /\ status' = 0
    /\ start' = NoStart /\ prevFull' = FALSE
    /\ UNCHANGED <<installed, beta, release, betaAlias, releaseAlias>>

\* The exception is swallowed: the run is reported as completed.
Raise_Swallowed(err) ==
    /\ pc' = "done" /\ error' = err /\ status' = 0 /\ prevFull' = FALSE

\* The run ends with an uncaught exception: sys.exit status 1.
Raise(err) ==
    /\ pc' = "failed" /\ error' = err /\ status' = 1 /\ prevFull' = FALSE

\* main() up to the first step: parse_args and the pre-flight checks, which
\* raise when the platform is not macOS, xcodes is not on the PATH or the
\* Xcode directory is not writable (verify_permissions).
Start ==
    /\ Idle
    /\ \E a \in [interactive : BOOLEAN, delete : BOOLEAN, links_only : BOOLEAN],
          preflight \in {"", "PreflightFailed"} :
          /\ args' = a
          /\ IF preflight # ""
             THEN Raise(preflight) /\ dry_run' = FALSE
             ELSE /\ pc' = FirstStep(a)
                  /\ dry_run' = a.interactive
                  /\ error' = "" /\ status' = 0
                  /\ prevFull' = prevFull
    /\ typed' = NoInput /\ answer' = "<None>"
    /\ ran' = <<>>
    /\ calls' = <<>> /\ plan' = <<>> /\ printed' = <<>>
    /\ priorBeta' = NoLink
    /\ start' = [installed |-> installed, beta |-> beta, release |-> release,
                 betaAlias |-> betaAlias, releaseAlias |-> releaseAlias,
                 afterFull |-> prevFull]
    /\ UNCHANGED world

\* install_latest_xcode(dry_run)
Install ==
    /\ pc = "install"
    /\ ran' = Append(ran, Called("install_latest_xcode", dry_run))
    /\ \E listing \in {"ok", "failed"}, tool \in {"ok", "failed"} :
          LET latest == latest_xcode_version(newest, installed)
          IN  IF listing = "failed"
              THEN /\ tool = "ok"
                   /\ Raise("ToolUnavailable")
                   /\ UNCHANGED <<installed, calls, plan, printed>>
              ELSE IF InstallExits(latest.is_installed)
              THEN /\ tool = "ok"
                   /\ printed' = Append(printed, "nothing to do")
                   /\ pc' = "exit" /\ status' = 0 /\ error' = ""
                   /\ prevFull' = prevFull
                   /\ UNCHANGED <<installed, calls, plan>>
              ELSE IF dry_run
              THEN /\ tool = "ok"
                   /\ plan' = Append(plan, Act("install", latest.version, NoLink))
                   /\ pc' = AfterInstall(args)
                   /\ UNCHANGED <<installed, calls, printed, error, status, prevFull>>
              ELSE IF tool = "failed"
              THEN /\ Raise("CalledProcessError")
                   /\ UNCHANGED <<installed, calls, plan, printed>>
              ELSE /\ installed' = installed \cup {latest.version}
                   /\ calls' = Append(calls, Act("install", latest.version, NoLink))
                   /\ pc' = AfterInstall(args)
                   /\ UNCHANGED <<plan, printed, error, status, prevFull>>
    /\ UNCHANGED <<newest, kind, beta, release, betaAlias, releaseAlias, args,
                   typed, answer, dry_run, priorBeta, start>>

\* delete_xcode(dry_run)
Delete ==
    /\ pc = "delete"
    /\ ran' = Append(ran, Called("delete_xcode", dry_run))
    /\ \E tool \in {"ok", "failed"} :
          LET d == delete_xcode(beta, installed, kind)
          IN  CASE d.outcome = "nobeta" ->
                   /\ tool = "ok"
                   /\ printed' = Append(printed, "no beta version detected")
                   /\ pc' = "links"
                   /\ UNCHANGED <<installed, calls, plan, error, status, prevFull>>
                [] d.outcome = "raise" ->
                   /\ tool = "ok"
                   /\ Raise("ClassificationLookupFailed")
                   /\ UNCHANGED <<installed, calls, plan, printed>>
                [] d.outcome = "none" ->
                   /\ tool = "ok"
                   /\ pc' = "links"
                   /\ UNCHANGED <<installed, calls, plan, printed, error, status,
                                  prevFull>>
                [] d.outcome = "delete" /\ dry_run ->
                   /\ tool = "ok"
                   /\ plan' = Append(plan, Act("uninstall", d.version, NoLink))
                   /\ pc' = "links"
                   /\ UNCHANGED <<installed, calls, printed, error, status, prevFull>>
                [] d.outcome = "delete" /\ ~dry_run /\ tool = "failed" ->
                   /\ Raise("CalledProcessError")
                   /\ UNCHANGED <<installed, calls, plan, printed>>
                [] d.outcome = "delete" /\ ~dry_run /\ tool = "ok" ->
                   /\ installed' = installed \ {d.version}
                   /\ calls' = Append(calls, Act("uninstall", d.version, NoLink))
                   /\ pc' = "links"
                   /\ UNCHANGED <<plan, printed, error, status, prevFull>>
    /\ UNCHANGED <<newest, kind, beta, release, betaAlias, releaseAlias, args,
                   typed, answer, dry_run, priorBeta, start>>

\* update_links(dry_run).  Its collaborators may fail: the listing call,
\* and either make_alias call at its first file operation (the unlink of
\* line 215 raising OSError), before anything has been written.
Links ==
    /\ pc = "links"
    /\ ran' = Append(ran, Called("update_links", dry_run))
    /\ \E tool \in {"ok", "listing", "make_alias beta", "make_alias release"} :
          LET u == update_links(dry_run, newest, installed, kind, beta, release,
                                betaAlias, releaseAlias)
          IN  CASE tool = "listing" ->
                   /\ Raise("ToolUnavailable")
                   /\ UNCHANGED <<beta, release, betaAlias, releaseAlias, calls,
                                  plan, priorBeta>>
                [] tool = "make_alias beta" ->
                   /\ Len(u.did) >= 1   \* make_alias(.., XCODE_BETA) is reached
                   /\ Raise("OSError")
                   /\ priorBeta' = u.current_beta
                   /\ UNCHANGED <<beta, release, betaAlias, releaseAlias, calls,
                                  plan>>
                [] tool = "make_alias release" ->
                   /\ Len(u.did) = 2    \* make_alias(.., XCODE_RELEASE) is reached
                   /\ Raise("OSError")
                   /\ beta' = u.beta /\ betaAlias' = u.betaAlias
                   /\ calls' = Append(calls, u.did[1])
                   /\ priorBeta' = u.current_beta
                   /\ UNCHANGED <<release, releaseAlias, plan>>
                [] tool = "ok" ->
                   /\ beta' = u.beta /\ release' = u.release
                   /\ betaAlias' = u.betaAlias /\ releaseAlias' = u.releaseAlias
                   /\ calls' = calls \o u.did
                   /\ plan' = IF dry_run THEN plan \o u.said ELSE plan
                   /\ priorBeta' = IF dry_run THEN priorBeta ELSE u.current_beta
                   /\ IF u.error # ""
                      THEN Raise(u.error)
                      ELSE /\ pc' = AfterLinks(dry_run)
                           /\ prevFull' = IF dry_run THEN prevFull ELSE ~args.links_only
                           /\ UNCHANGED <<error, status>>
    /\ UNCHANGED <<newest, kind, installed, args, typed, answer, dry_run, printed,
                   start>>

\* ask_for_confirmation("Continue updating? (Y/n): "): one pass of the loop.
Confirm ==
    /\ pc = "confirm"
    /\ \E typed_line \in Answers :
          LET a == NormalizedAnswer(typed_line)
          IN  /\ typed' = typed_line
              /\ answer' = a
              /\ IF ~AnswerAccepted(a)
                 THEN UNCHANGED <<pc, dry_run>>
                 ELSE IF a = "n"
                 THEN pc' = "exit" /\ UNCHANGED dry_run
                 ELSE pc' = FirstStep(args) /\ dry_run' = FALSE
    /\ UNCHANGED <<newest, kind, installed, beta, release, betaAlias, releaseAlias,
                   args, ran, calls, plan, printed, priorBeta, error, status,
                   start, prevFull>>

Next == Publish \/ Start \/ Install \/ Delete \/ Links \/ Confirm

Spec == Init /\ [][Next]_vars

TypeOK ==
    /\ newest \in Versions
    /\ installed \subseteq 1..newest
    /\ pc \in {"idle", "install", "delete", "links", "confirm", "done", "exit", "failed"}
    /\ status \in {0, 1}
    /\ dry_run \in BOOLEAN

-----------------------------------------------------------------------------
(* Vocabulary of the properties.                                           *)

\* The version whose bundle is at `path`.
VersionAt(path) == CHOOSE v \in Versions : PathOf(v) = path

\* Version v is a prerelease: Beta or Release Candidate.
IsPrerelease(v) == kind[v] \in {"Beta", "Release Candidate"}

Min(S) == CHOOSE x \in S : \A y \in S : x <= y

Range(seq) == {seq[i] : i \in 1..Len(seq)}

\* Operations named in a sequence of actions.
Ops(seq) == {seq[i].op : i \in 1..Len(seq)}

\* A run has ended.
Ended == pc \in {"done", "exit", "failed"}

\* A run is under way or has ended.
InRun == pc # "idle"

\* The version delete_xcode has just announced (preview) or uninstalled
\* (commit) in the step from the unprimed to the primed state.
SelectedByStep ==
    IF Len(plan') > Len(plan) THEN plan'[Len(plan')].version
    ELSE IF Len(calls') > Len(calls) THEN calls'[Len(calls')].version
    ELSE NoneVersion

-----------------------------------------------------------------------------
(* C1: when the Beta pointer resolves to an installed version and           *)
(* delete_xcode returns normally, it selects the oldest installed version   *)
(* if the Beta target is a release, and the oldest installed prerelease if  *)
(* the Beta target is a prerelease; a release is never uninstalled while    *)
(* the Beta target is a prerelease; only the commit pass uninstalls, and    *)
(* only the selected version.                                               *)
C1_DeleteSelection ==
    [][ (pc = "delete" /\ pc' = "links" /\ LinkExists(beta, installed)) =>
          LET b == VersionAt(beta)
              pre == {v \in installed : IsPrerelease(v)}
          IN  /\ ~IsPrerelease(b) => SelectedByStep = Min(installed)
              /\ IsPrerelease(b) =>
                    /\ SelectedByStep = IF pre = {} THEN NoneVersion ELSE Min(pre)
                    /\ \A v \in installed \ installed' : IsPrerelease(v)
              /\ installed' = IF dry_run THEN installed
                              ELSE installed \ {SelectedByStep} ]_vars

\* A committed uninstall of a prerelease that skipped an older installed
\* release, the Beta pointer being on a prerelease.
C1_Witness ==
    /\ pc = "links" /\ ~dry_run
    /\ LinkExists(start.beta, start.installed)
    /\ IsPrerelease(VersionAt(start.beta))
    /\ \E i \in 1..Len(calls) :
          /\ calls[i].op = "uninstall"
          /\ \E r \in start.installed : ~IsPrerelease(r) /\ r < calls[i].version

(* C2: whenever both pointers exist, the Release pointer's version is not   *)
(* newer than the Beta pointer's; after update_links has committed, Beta    *)
(* targets latest and Release targets its old target, the prior Beta target *)
(* or latest.                                                               *)
C2_ReleaseNotNewerThanBeta ==
    /\ (beta # NoLink /\ release # NoLink) => VersionAt(release) <= VersionAt(beta)
    /\ pc = "done" =>
          /\ beta = PathOf(newest)
          /\ release \in {start.release, priorBeta, PathOf(newest)}
          /\ release # NoLink

\* update_links committed and left Release strictly older than Beta.
C2_Witness ==
    /\ pc = "done"
    /\ release # NoLink
    /\ release # start.release
    /\ VersionAt(release) < VersionAt(beta)

(* C3: a full run (no --links-only) that follows a completed full run with  *)
(* no outside change in between reports "nothing to do" at Install, exits   *)
(* with status 0, commits no install, uninstall or relink and leaves the    *)
(* installed set and both pointers as they were.                            *)
C3_SecondRunIdempotent ==
    (InRun /\ start.afterFull /\ ~args.links_only) =>
        /\ calls = <<>>
        /\ installed = start.installed
        /\ beta = start.beta /\ release = start.release
        /\ (Ended /\ error = "") =>
              /\ pc = "exit" /\ status = 0
              /\ printed = <<"nothing to do">>
              /\ plan = <<>>

\* The second full run has ended, after a first one that installed,
\* uninstalled and relinked.
C3_Witness ==
    /\ pc = "exit" /\ start.afterFull /\ ~args.links_only
    /\ printed = <<"nothing to do">>
    /\ beta # NoLink /\ release # NoLink /\ release # beta

(* C4 (as stated): a run that starts with neither pointer and exactly one   *)
(* installed version ends with both pointers on that version.               *)
C4_Original ==
    (/\ pc \in {"done", "exit"} /\ answer # "n"
     /\ start.beta = NoLink /\ start.release = NoLink
     /\ Cardinality(start.installed) = 1) =>
        \E v \in start.installed : beta = PathOf(v) /\ release = PathOf(v)

(* C4 (amended): from neither pointer and exactly one installed version, a  *)
(* run that commits update_links ends with Beta and Release both on latest, *)
(* which is the one installed version exactly in a --links-only run; a full *)
(* run then has installed latest first.  A run that exits (latest already   *)
(* installed, or the user answered no) creates neither pointer.             *)
C4_FirstRun ==
    (/\ start.beta = NoLink /\ start.release = NoLink
     /\ Cardinality(start.installed) = 1) =>
        /\ pc = "done" =>
              /\ beta = PathOf(newest) /\ release = PathOf(newest)
              /\ newest \in installed
              /\ args.links_only <=> start.installed = {newest}
        /\ pc = "exit" => beta = NoLink /\ release = NoLink

\* A --links-only first run has put both pointers on the one installed
\* version.
C4_Witness ==
    /\ pc = "done" /\ args.links_only
    /\ start.beta = NoLink /\ start.release = NoLink
    /\ Cardinality(start.installed) = 1
    /\ \E v \in start.installed : beta = PathOf(v) /\ release = PathOf(v)

(* C5 (as stated): a run whose Install phase reported "nothing to do" still *)
(* executes update_links.                                                   *)
C5_Original ==
    (Ended /\ "nothing to do" \in Range(printed)) =>
        \E i \in 1..Len(ran) : ran[i].fn = "update_links"

(* C5 (amended): when latest is already installed, install_latest_xcode     *)
(* reports "nothing to do" and ends the run there with exit status 0:       *)
(* nothing else is called, nothing is committed and both pointers stay as   *)
(* they were.  update_links runs on an already installed latest only in a   *)
(* --links-only run, which skips Install.                                   *)
C5_InstallNoOpEndsRun ==
    /\ "nothing to do" \in Range(printed) =>
          /\ pc = "exit" /\ status = 0
          /\ newest \in start.installed
          /\ ran = <<Called("install_latest_xcode", args.interactive)>>
          /\ calls = <<>>
          /\ installed = start.installed
          /\ beta = start.beta /\ release = start.release
    /\ (newest \in start.installed /\ \E i \in 1..Len(ran) : ran[i].fn = "update_links")
          => args.links_only
    /\ (InRun /\ newest \in start.installed /\ ~args.links_only /\ Ended /\ error = "")
          => "nothing to do" \in Range(printed)

\* The run ended at Install although the Beta pointer is not on latest.
C5_Witness ==
    /\ pc = "exit" /\ printed = <<"nothing to do">>
    /\ beta # PathOf(newest)

(* C6: a --links-only run calls only update_links, never announces or       *)
(* commits an install or uninstall, and leaves the installed set as it was. *)
C6_LinksOnly ==
    (InRun /\ args.links_only) =>
        /\ installed = start.installed
        /\ Ops(calls) \subseteq {"relinkBeta", "relinkRelease"}
        /\ Ops(plan) \subseteq {"relinkBeta", "relinkRelease"}
        /\ \A i \in 1..Len(ran) : ran[i].fn = "update_links"

\* An interactive --links-only run previewed and committed both relinks
\* while an older version could have been uninstalled.
C6_Witness ==
    /\ pc = "done" /\ args.links_only /\ args.interactive /\ args.delete
    /\ Len(calls) = 2 /\ Len(plan) = 2
    /\ Cardinality(installed) > 1

\* Position of an operation in Install, Delete, Relink(Beta), Relink(Release).
OrderRank(op) ==
    CASE op \in {"install", "install_latest_xcode"} -> 1
      [] op \in {"uninstall", "delete_xcode"} -> 2
      [] op \in {"relinkBeta", "update_links"} -> 3
      [] op = "relinkRelease" -> 4

(* C7: the committed actions of a run occur in the order Install, Delete,   *)
(* Relink(Beta), Relink(Release), each at most once, and so do the commit   *)
(* calls of main(); a committed Release relink targets the Beta target as   *)
(* it was before Beta was re-pointed when that target still exists, and     *)
(* latest only when there is no such prior target.                          *)
C7_FixedOrder ==
    /\ \A i, j \in 1..Len(calls) :
          i < j => OrderRank(calls[i].op) < OrderRank(calls[j].op)
    /\ \A i, j \in 1..Len(ran) :
          (i < j /\ ~ran[i].dry_run) =>
              /\ ~ran[j].dry_run
              /\ OrderRank(ran[i].fn) < OrderRank(ran[j].fn)
    /\ \A i \in 1..Len(calls) :
          calls[i].op = "relinkRelease" =>
              /\ priorBeta = start.beta
              /\ calls[i].path = IF start.beta # NoLink /\ Exists(start.beta, installed)
                                 THEN start.beta ELSE PathOf(newest)

\* All four actions were committed in one run and Release went to the
\* outgoing Beta target, not to Beta's new one.
C7_Witness ==
    /\ pc = "done"
    /\ Len(calls) = 4
    /\ release = start.beta /\ release # beta

\* The first character of the typed line, "" for the bare Enter key.
FirstTyped == IF typed = <<>> THEN "" ELSE typed[1]

\* The user has answered the prompt with yes (or Enter), with no.
SaidYes == typed # NoInput /\ FirstTyped \in {"", "y", "Y"}
SaidNo == typed # NoInput /\ FirstTyped \in {"n", "N"}

\* Nothing on disk differs from the start of the run.
Untouched ==
    /\ installed = start.installed
    /\ beta = start.beta /\ release = start.release
    /\ betaAlias = start.betaAlias /\ releaseAlias = start.releaseAlias

(* C8: in an interactive run nothing is installed, uninstalled or linked    *)
(* before the user confirms: the preview pass leaves the installed set, the *)
(* pointers and the aliases as they were; the commit pass starts only after *)
(* an empty answer or one starting with y or Y; an answer starting with n   *)
(* or N ends the run with exit status 0 and nothing changed; any other      *)
(* answer leaves the run at the prompt.                                     *)
C8_ConfirmationGate ==
    /\ (InRun /\ dry_run) => (calls = <<>> /\ Untouched)
    /\ (InRun /\ args.interactive /\ ~SaidYes) =>
          /\ calls = <<>> /\ Untouched
          /\ \A i \in 1..Len(ran) : ran[i].dry_run
    /\ SaidYes => (~dry_run /\ pc \notin {"confirm", "exit"})
    /\ SaidNo => (pc = "exit" /\ status = 0 /\ error = "" /\ calls = <<>> /\ Untouched)
    /\ (typed # NoInput /\ ~SaidYes /\ ~SaidNo) => (pc = "confirm" /\ dry_run)

\* The user typed "No" after a preview that announced an uninstall.
C8_Witness ==
    /\ pc = "exit" /\ typed = <<"N", "o">>
    /\ "uninstall" \in Ops(plan)

(* C9 (as stated): when a run has completed, every pointer that exists      *)
(* targets an installed version.                                            *)
C9_PointersResolve ==
    pc = "done" =>
        /\ beta # NoLink => Exists(beta, installed)
        /\ release # NoLink => Exists(release, installed)

(* C10 (as stated): no listing failure happens after an install, an         *)
(* uninstall or a relink has been committed.                                *)
C10_Original == error = "ToolUnavailable" => calls = <<>>

(* C10 (amended): a listing failure is fatal: the run ends with a non-zero  *)
(* status and commits nothing after it, so both pointers and aliases are    *)
(* as at the start.  It comes before any mutation when it happens in the    *)
(* preview pass, in install_latest_xcode or in a --links-only run; the      *)
(* listing call of update_links in a full run comes after the committed     *)
(* install and uninstall, which stay committed.                             *)
C10_ListingFailure ==
    error = "ToolUnavailable" =>
        /\ pc = "failed" /\ status = 1
        /\ beta = start.beta /\ release = start.release
        /\ betaAlias = start.betaAlias /\ releaseAlias = start.releaseAlias
        /\ Ops(calls) \subseteq {"install", "uninstall"}
        /\ installed = (start.installed \cup {calls[i].version : i \in
                            {n \in 1..Len(calls) : calls[n].op = "install"}})
                        \ {calls[i].version : i \in
                            {n \in 1..Len(calls) : calls[n].op = "uninstall"}}
        /\ calls # <<>> =>
              /\ ~args.links_only
              /\ ran[Len(ran)] = Called("update_links", FALSE)
        /\ (ran[Len(ran)].dry_run \/ ran[Len(ran)].fn = "install_latest_xcode"
                \/ args.links_only) => (calls = <<>> /\ Untouched)

\* The listing failed in update_links after an install and an uninstall
\* had been committed.
C10_Witness ==
    /\ error = "ToolUnavailable"
    /\ Ops(calls) = {"install", "uninstall"}

\* The Beta target as update_links resolved it still exists when the
\* Release pointer is decided.
PriorBetaExists == start.beta # NoLink /\ Exists(start.beta, installed)

(* C11: when update_links commits and a Release pointer already exists,     *)
(* Release is re-pointed to the prior Beta target if that target still      *)
(* exists and is a release (neither Beta nor Release Candidate), and is     *)
(* left untouched, with no Release relink committed, in every other case.   *)
C11_ReleaseWhenPresent ==
    (pc = "done" /\ start.release # NoLink) =>
        IF PriorBetaExists /\ ~IsPrerelease(VersionAt(start.beta))
        THEN /\ release = start.beta /\ releaseAlias = start.beta
             /\ "relinkRelease" \in Ops(calls)
        ELSE /\ release = start.release /\ releaseAlias = start.releaseAlias
             /\ "relinkRelease" \notin Ops(calls)

\* Release moved from an older version to the outgoing Beta target, a
\* release.
C11_Witness ==
    /\ pc = "done" /\ start.release # NoLink
    /\ release = start.beta /\ release # start.release
    /\ ~IsPrerelease(VersionAt(release))

(* C12: when update_links commits and no Release pointer exists, Release is *)
(* created on the prior Beta target if that target exists, prerelease or    *)
(* not, and on latest otherwise; a Release pointer exists afterwards.       *)
C12_ReleaseWhenAbsent ==
    (pc = "done" /\ start.release = NoLink) =>
        /\ release # NoLink
        /\ release = IF PriorBetaExists THEN start.beta ELSE PathOf(newest)
        /\ releaseAlias = release
        /\ "relinkRelease" \in Ops(calls)

\* Release was created on the outgoing Beta target, a prerelease older
\* than latest.
C12_Witness ==
    /\ pc = "done" /\ start.release = NoLink /\ start.beta # NoLink
    /\ release = start.beta /\ release # beta
    /\ IsPrerelease(VersionAt(release))

(* C13: when update_links has committed without error, the Beta pointer and *)
(* its alias target the installed path of latest, whatever Beta targeted    *)
(* before.                                                                  *)
C13_BetaOnLatest ==
    pc = "done" =>
        /\ beta = PathOf(newest) /\ betaAlias = PathOf(newest)
        /\ newest \in installed
        /\ Act("relinkBeta", newest, PathOf(newest)) \in Range(calls)

\* Beta was a dangling link to an uninstalled older version and is now on
\* latest.
C13_Witness ==
    /\ pc = "done"
    /\ start.beta # NoLink /\ ~Exists(start.beta, start.installed)
    /\ beta = PathOf(newest) /\ beta # start.beta

(* C14: update_links committed while latest is not installed fails with the *)
(* "isn't installed yet" error and exit status 1 before any alias is made:  *)
(* both pointers and aliases are as they were.  A --links-only commit on a  *)
(* latest that is not installed always ends this way.                       *)
C14_TargetNotInstalled ==
    /\ error = "TargetNotInstalled" =>
          /\ pc = "failed" /\ status = 1
          /\ newest \notin installed
          /\ Ops(calls) \cap {"relinkBeta", "relinkRelease"} = {}
          /\ beta = start.beta /\ release = start.release
          /\ betaAlias = start.betaAlias /\ releaseAlias = start.releaseAlias
    /\ (/\ Ended /\ args.links_only /\ newest \notin start.installed
        /\ Len(ran) > 0 /\ ~ran[Len(ran)].dry_run
        /\ error # "ToolUnavailable") => error = "TargetNotInstalled"

\* A --links-only run on existing pointers failed because latest is not
\* installed.
C14_Witness ==
    /\ error = "TargetNotInstalled" /\ args.links_only
    /\ beta # NoLink /\ release # NoLink

\* Versions the current run has uninstalled.
Uninstalled == {calls[i].version : i \in {n \in 1..Len(calls) : calls[n].op = "uninstall"}}

\* Versions the current run has installed.
Installed == {calls[i].version : i \in {n \in 1..Len(calls) : calls[n].op = "install"}}

(* C15 (as stated): a version that delete_xcode uninstalls while it is the   *)
(* Beta pointer's target is never release-classified.                       *)
C15_DeletedPriorBetaNotRelease ==
    \A v \in Uninstalled : PathOf(v) = start.beta => IsPrerelease(v)

(* C16: when the Beta pointer does not exist, delete_xcode prints the       *)
(* "no beta version detected" message and returns: no uninstall is          *)
(* announced or committed in either pass and no installed version is lost.  *)
(* The message is printed in no other case.                                 *)
C16_NoBetaNoDelete ==
    LET deletes == SelectSeq(ran, LAMBDA c : c.fn = "delete_xcode")
        notices == SelectSeq(printed, LAMBDA m : m = "no beta version detected")
    IN  /\ (InRun /\ start.beta = NoLink) =>
              /\ "uninstall" \notin Ops(calls) \cup Ops(plan)
              /\ start.installed \subseteq installed
              /\ Len(notices) = Len(deletes)
              /\ \A i \in 1..Len(ran) :
                    (ran[i].fn = "delete_xcode" /\ i = Len(ran)) => pc = "links"
        /\ notices # <<>> => start.beta = NoLink

\* The commit pass of delete_xcode returned without a Beta pointer although
\* an old prerelease is installed next to latest.
C16_Witness ==
    /\ pc = "links" /\ ~dry_run /\ start.beta = NoLink
    /\ Len(ran) > 0 /\ ran[Len(ran)] = Called("delete_xcode", FALSE)
    /\ \E v \in installed : v < newest /\ IsPrerelease(v)

(* C17: when the Beta pointer is a link to a path that no installed version *)
(* has, delete_xcode fails the classification lookup, and that is fatal:    *)
(* the run ends there with a non-zero status, no uninstall and no relink is *)
(* committed, both pointers stay as they were, and an install committed     *)
(* earlier in the run stays committed.                                      *)
C17_ClassificationFailure ==
    /\ error = "ClassificationLookupFailed" =>
          /\ pc = "failed" /\ status = 1
          /\ ran[Len(ran)].fn = "delete_xcode"
          /\ Ops(calls) \subseteq {"install"}
          /\ installed = start.installed \cup Installed
          /\ beta = start.beta /\ release = start.release
          /\ betaAlias = start.betaAlias /\ releaseAlias = start.releaseAlias
    /\ (/\ start.beta # NoLink /\ ~Exists(start.beta, start.installed)
        /\ \E i \in 1..Len(ran) : ran[i].fn = "delete_xcode")
          => error = "ClassificationLookupFailed"

\* The lookup failed in the commit pass after latest had been installed.
C17_Witness ==
    /\ error = "ClassificationLookupFailed"
    /\ Installed = {newest} /\ newest \in installed

\* What an announced or committed action is about: the operation and the
\* bundle it installs, uninstalls or points a pointer at.
Target(a) == IF a.path # NoLink THEN a.path ELSE PathOf(a.version)
Key(a) == <<a.op, Target(a)>>
Keys(seq) == {Key(seq[i]) : i \in 1..Len(seq)}

(* C18 (as stated): when an interactive run has been confirmed and has      *)
(* completed, the actions the preview announced are the actions committed.  *)
C18_PreviewFidelity ==
    (pc = "done" /\ args.interactive) => Keys(plan) = Keys(calls)

(* C19: in a run that has committed the install of latest, delete_xcode     *)
(* never uninstalls the version just installed: latest is still installed   *)
(* whenever the run goes on to, or has gone through, update_links.          *)
C19_DeleteSparesLatest ==
    Installed # {} =>
        /\ Installed = {newest}
        /\ newest \notin Uninstalled
        /\ newest \in installed
        /\ \A v \in Uninstalled : v < newest

\* Latest was installed and an older version uninstalled in the same run.
C19_Witness ==
    /\ pc = "links" /\ ~dry_run
    /\ Installed = {newest} /\ Uninstalled # {}
    /\ newest \in installed

\* A --links-only run has completed that started with the Beta pointer on
\* the installed latest version and with a Release pointer.
LinksOnlyOnReconciled ==
    /\ pc = "done" /\ args.links_only
    /\ start.beta = PathOf(newest) /\ newest \in start.installed
    /\ start.release # NoLink

(* C20 (as stated): such a run leaves the targets of both pointers          *)
(* unchanged.                                                               *)
C20_Original ==
    LinksOnlyOnReconciled => (beta = start.beta /\ release = start.release)

(* C20 (amended): such a run leaves the Beta pointer's target unchanged     *)
(* and installs or uninstalls nothing; it leaves the Release pointer's      *)
(* target unchanged when latest is a prerelease, and moves the Release      *)
(* pointer onto latest, the Beta pointer's version, when latest is          *)
(* release-classified.                                                      *)
C20_LinksOnlyReconciled ==
    LinksOnlyOnReconciled =>
        /\ beta = start.beta
        /\ installed = start.installed
        /\ release = IF IsPrerelease(newest) THEN start.release ELSE PathOf(newest)
        /\ ("relinkRelease" \in Ops(calls)) = ~IsPrerelease(newest)

\* The Release pointer was on an older version and the run moved it onto
\* the Beta pointer's version.
C20_Witness ==
    /\ LinksOnlyOnReconciled
    /\ release # start.release /\ release = beta
    /\ Exists(start.release, installed)

====
